---- MODULE Spec2Model ----
(***************************************************************************)
(* One conversion request of the 7TV -> Telegram sticker bot               *)
(* (src/7tv_telegram_bot.py): SevenTVToTelegramBot.convert_7tv_set and the *)
(* reply convert_command sends.  Every await of the coroutine is one       *)
(* action.  The 7TV API, the asset hosts and the Telegram Bot API are the  *)
(* environment: what they answer is drawn in Init (metadata, asset hosts)  *)
(* or at the call (create_new_sticker_set).                                *)
(***************************************************************************)
EXTENDS Integers, Sequences, FiniteSets, TLC

\* ------------------------------------------------------------------ bounds
\* longest 'files' array of an emote
MaxFiles == 2
\* longest explicitly mixed head of an emote set (the rest repeats its first emote)
MaxHead == 2
\* largest small emote set (every size 0..MaxSmall is explored)
MaxSmall == 3
\* the large emote sets have StickerLimit .. StickerLimit + MaxOver emotes
MaxOver == 2

\* ------------------------------------------------------- program constants
\* stickers[:50], "Telegram limit: max 50 stickers per set"
StickerLimit == 50
\* response.status == 200
HTTP_OK == 200

None == "None"

\* ------------------------------------------------------------- environment
VariantNames == {"1x.webp", "2x.webp", "4x.webp"}

\* emote['data']['host']['files'], by the 'name' of each entry
FileLists == UNION {[1..k -> VariantNames] : k \in 0..MaxFiles}

\* what the asset host answers for the emote's image: status and whether PIL
\* can decode the body
Responses == {[status |-> 200, decodable |-> TRUE],
              [status |-> 200, decodable |-> FALSE],
              [status |-> 500, decodable |-> FALSE]}

Emotes == [files : FileLists, resp : Responses]

\* the emotes that are mixed with each other in one set
MixEmotes == {[files |-> <<"2x.webp", "1x.webp">>, resp |-> [status |-> 200, decodable |-> TRUE]],
              [files |-> <<"2x.webp">>, resp |-> [status |-> 500, decodable |-> FALSE]],
              [files |-> <<"4x.webp">>, resp |-> [status |-> 200, decodable |-> TRUE]]}

MixHeads == UNION {[1..k -> MixEmotes] : k \in 1..MaxHead}

SmallSets == [head : {<<e>> : e \in Emotes} \cup MixHeads, size : 0..MaxSmall]

LargeSets == [head : MixHeads, size : StickerLimit..(StickerLimit + MaxOver)]

MetaStatuses == {200, 404}

SetIds == {"01K1", "6x"}

CustomNames == {None, "", "pog"}

BotUsernames == {"emote_bot", "sticker_bot"}

\* the (set_id, custom_name, bot username) combinations explored
NamingInputs ==
  {<<id, custom, "emote_bot">> : id \in SetIds, custom \in {None, "pog"}}
    \cup {<<"01K1", custom, "sticker_bot">> : custom \in {"", "pog"}}

Min(a, b) == IF a < b THEN a ELSE b

VARIABLES
  pc,            \* where the coroutine stands
  set_id,        \* argument of convert_7tv_set
  custom_name,   \* argument of convert_7tv_set (None: not given)
  bot_username,  \* username of the bot's own account, as get_me reports it
  remote,        \* what the 7TV API holds for set_id: status, name, emotes
  emotes_data,   \* the fetched JSON, <<>> before
  set_name,
  set_title,
  pos,           \* number of emotes the for loop has taken
  host,          \* loop variable of the two 'files' scans: <<emote index, file index>>, <<>> unbound
  image_url,
  stickers,      \* the list 'stickers': emote indices, one per InputSticker
  calls,         \* network calls made, in order
  printed,       \* lines printed
  sticker_set_url,
  exc,           \* exception propagating out of convert_7tv_set, <<>> if none
  result,        \* value returned by convert_7tv_set, <<>> before
  reply          \* the reply convert_command sends, <<>> before

vars == <<pc, set_id, custom_name, bot_username, remote, emotes_data, set_name, set_title, pos,
          host, image_url, stickers, calls, printed, sticker_set_url, exc, result, reply>>

\* emotes_data['emotes'][i] of a set: the head, then its first emote repeated
EmoteAt(set, i) == set.head[IF i <= Len(set.head) THEN i ELSE 1]

\* len(emotes_data.get('emotes', []))
NumEmotes(data) == data.size

\* emote['data']['host']['url'] of the i-th emote (scheme-relative)
HostUrl(i) == "//cdn.7tv.app/emote/" \o ToString(i)

\* the optional 'name' of the set the 7TV API holds under an id
DisplayName(id) == IF id = "01K1" THEN "Pog pack" ELSE None

Init ==
  /\ pc = "fetch"
  /\ \E inputs \in NamingInputs :
       /\ set_id = inputs[1]
       /\ custom_name = inputs[2]
       /\ bot_username = inputs[3]
  /\ \E st \in MetaStatuses, s \in SmallSets \cup LargeSets :
       remote = [status |-> st, head |-> s.head, size |-> s.size]
  /\ emotes_data = <<>>
  /\ set_name = None
  /\ set_title = None
  /\ pos = 0
  /\ host = <<>>
  /\ image_url = None
  /\ stickers = <<>>
  /\ calls = <<>>
  /\ printed = <<>>
  /\ sticker_set_url = None
  /\ exc = <<>>
  /\ result = <<>>
  /\ reply = <<>>

\* ---------------------------------------------------------- get_7tv_emote_set
\* mutant: every answer that is not a server error is taken
MetadataOkBelow500(status) == status < 500

\* response.status == 200
MetadataOk(status) == status = HTTP_OK

get_7tv_emote_set ==
  /\ pc = "fetch"
  /\ calls' = Append(calls, [op |-> "get_emote_set",
                             url |-> "https://7tv.io/v3/emote-sets/" \o set_id])
  /\ IF MetadataOk(remote.status)
       THEN /\ emotes_data' = [name |-> DisplayName(set_id),
                                head |-> remote.head, size |-> remote.size]
            /\ exc' = exc
            /\ pc' = "get_me"
       ELSE /\ emotes_data' = emotes_data
            /\ exc' = <<"Failed to fetch 7TV data", remote.status>>
            /\ pc' = "reply"
  /\ UNCHANGED <<set_id, custom_name, bot_username, remote, set_name, set_title, pos, host,
                 image_url, stickers, printed, sticker_set_url, result, reply>>

\* ------------------------------------------------- naming (convert_7tv_set)
\* Python truth value of custom_name
Truthy(s) == s # None /\ s # ""

\* mutant: the custom name is ignored
SetNameDefaultOnly(id, custom, username) == "7tv_" \o id \o "_by_" \o username

\* set_name of convert_7tv_set
SetName(id, custom, username) ==
  IF Truthy(custom)
    THEN custom \o "_by_" \o username
    ELSE "7tv_" \o id \o "_by_" \o username

\* emotes_data.get('name', f"7TV Emotes - {set_id}")
SetTitle(data, id) == IF data.name # None THEN data.name ELSE "7TV Emotes - " \o id

\* what bot.get_me() can do: return the bot's User, or raise (network error)
GetMeAnswers == {"User", "raise"}

get_me ==
  /\ pc = "get_me"
  /\ calls' = Append(calls, [op |-> "get_me"])
  /\ \E answer \in GetMeAnswers :
       IF answer = "User"
         THEN /\ set_name' = SetName(set_id, custom_name, bot_username)
              /\ set_title' = SetTitle(emotes_data, set_id)
              /\ exc' = exc
              /\ pc' = "loop"
         ELSE /\ set_name' = set_name
              /\ set_title' = set_title
              /\ exc' = <<"Timed out", "get_me">>
              /\ pc' = "reply"
  /\ UNCHANGED <<set_id, custom_name, bot_username, remote, emotes_data, pos, host,
                 image_url, stickers, printed, sticker_set_url, result, reply>>

\* ------------------------------------- create_telegram_sticker_set: the loop
\* for host in files: if host['name'] == name: ...; break
\* the index the scan breaks at, 0 when it runs to the end
RECURSIVE ScanFrom(_, _, _)
ScanFrom(files, name, j) ==
  IF j > Len(files) THEN 0
  ELSE IF files[j] = name THEN j
  ELSE ScanFrom(files, name, j + 1)

\* mutant: a single scan that stops at the first 2x or 1x entry
PickFirstEither(files) ==
  LET two == ScanFrom(files, "2x.webp", 1)
      one == ScanFrom(files, "1x.webp", 1)
  IN IF two = 0 THEN one
     ELSE IF one = 0 THEN two
     ELSE IF one < two THEN one ELSE two

\* the entry the image URL is built from: the 2x scan, then the 1x scan
\* when the first left image_url unset; 0 when both run to the end
PickFile(files) ==
  LET two == ScanFrom(files, "2x.webp", 1)
  IN IF two # 0 THEN two ELSE ScanFrom(files, "1x.webp", 1)

\* f"https:{emote['data']['host']['url']}/{host['name']}"
ImageUrl(i, files) ==
  IF PickFile(files) = 0 THEN None
  ELSE "https:" \o HostUrl(i) \o "/" \o files[PickFile(files)]

\* the loop variable 'host' after the scans over the i-th emote's files
HostAfter(old, i, files) ==
  IF PickFile(files) # 0 THEN <<i, PickFile(files)>>
  ELSE IF files = <<>> THEN old
  ELSE <<i, Len(files)>>

\* one iteration up to 'if image_url:'
resolve_emote ==
  /\ pc = "loop"
  /\ pos < NumEmotes(emotes_data)
  /\ LET i == pos + 1
         files == EmoteAt(emotes_data, i).files
     IN /\ pos' = i
        /\ image_url' = ImageUrl(i, files)
        /\ host' = HostAfter(host, i, files)
        /\ pc' = IF ImageUrl(i, files) # None THEN "download" ELSE "loop"
  /\ UNCHANGED <<set_id, custom_name, bot_username, remote, emotes_data, set_name,
                 set_title, stickers, calls, printed, sticker_set_url, exc, result, reply>>

\* ------------------------------------------------------ download_emote_image
\* response.status == 200
ImageOk(status) == status = HTTP_OK

\* what download_emote_image does with the host's answer: the PNG buffer, or
\* the exception it raises
download_emote_image(resp) ==
  IF ~ImageOk(resp.status) THEN <<"raise", "Failed to download image", resp.status>>
  ELSE IF ~resp.decodable THEN <<"raise", "cannot identify image file", resp.status>>
  ELSE <<"return", "PNG 512x512", resp.status>>

\* mutant: only the download's own exception is caught, a decode error escapes
CaughtDownloadOnly(out) == out[1] = "raise" /\ out[2] = "Failed to download image"

\* 'except Exception': the exceptions of the try block the handler catches
Caught(out) == out[1] = "raise"

\* mutant: the sticker is put at the front
PrependSticker(list, i) == <<i>> \o list

\* the list after stickers.append(sticker)
AppendSticker(list, i) == Append(list, i)

\* the try block of one iteration and its handler ('continue')
download_emote ==
  /\ pc = "download"
  /\ LET i == pos
         out == download_emote_image(EmoteAt(emotes_data, i).resp)
     IN /\ calls' = Append(calls, [op |-> "download", emote |-> i, url |-> image_url])
        /\ IF out[1] = "return"
             THEN /\ stickers' = AppendSticker(stickers, i)
                  /\ printed' = Append(printed, <<"Processed emote", i>>)
                  /\ exc' = exc
                  /\ pc' = "loop"
             ELSE IF Caught(out)
             THEN /\ stickers' = stickers
                  /\ printed' = Append(printed, <<"Failed to process emote", i, out[2]>>)
                  /\ exc' = exc
                  /\ pc' = "loop"
             ELSE /\ stickers' = stickers
                  /\ printed' = printed
                  /\ exc' = <<out[2], out[3]>>
                  /\ pc' = "reply"
  /\ UNCHANGED <<set_id, custom_name, bot_username, remote, emotes_data, set_name,
                 set_title, pos, host, image_url, sticker_set_url, result, reply>>

\* ------------------------------------------------- create_new_sticker_set
\* mutant: the list is passed whole
TruncateNothing(list) == list

\* stickers[:50]
Truncate(list) == SubSeq(list, 1, Min(Len(list), StickerLimit))

\* mutant: the publish call sits inside the loop body
LoopDoneAnywhere == pos >= 0

\* the loop is over: every emote of emotes_data['emotes'] has been taken
LoopDone == pos = NumEmotes(emotes_data)

\* what the Bot API can answer: True, False, or an exception; a set needs
\* at least one sticker, so an empty list is never answered True
PublishAnswers(items) ==
  IF items = <<>> THEN {"False", "raise"} ELSE {"True", "False", "raise"}

create_new_sticker_set ==
  /\ pc = "loop"
  /\ LoopDone
  /\ calls' = Append(calls, [op |-> "create_new_sticker_set", name |-> set_name,
                             title |-> set_title, stickers |-> Truncate(stickers),
                             sticker_format |-> "static"])
  /\ \E answer \in PublishAnswers(Truncate(stickers)) :
       IF answer = "True"
         THEN /\ sticker_set_url' = "https://t.me/addstickers/" \o set_name
              /\ exc' = exc
              /\ pc' = "return"
         ELSE /\ sticker_set_url' = sticker_set_url
              /\ exc' = <<"Error creating sticker set",
                          IF answer = "False" THEN "Failed to create sticker set"
                                              ELSE "Bad Request">>
              /\ pc' = "reply"
  /\ UNCHANGED <<set_id, custom_name, bot_username, remote, emotes_data, set_name,
                 set_title, pos, host, image_url, stickers, printed, result, reply>>

\* ------------------------------------------------- convert_7tv_set: return
\* return sticker_set_url, len(emotes_data.get('emotes', []))
ReturnValue(url, data) == <<url, NumEmotes(data)>>

convert_return ==
  /\ pc = "return"
  /\ result' = ReturnValue(sticker_set_url, emotes_data)
  /\ pc' = "reply"
  /\ UNCHANGED <<set_id, custom_name, bot_username, remote, emotes_data, set_name,
                 set_title, pos, host, image_url, stickers, calls, printed,
                 sticker_set_url, exc, reply>>

\* ------------------------------------------------------------ convert_command
\* the try/except of convert_command: the reply it sends
convert_command ==
  /\ pc = "reply"
  /\ reply' = IF exc = <<>>
                THEN [ok |-> TRUE, emote_count |-> result[2], sticker_url |-> result[1]]
                ELSE [ok |-> FALSE, error |-> exc]
  /\ pc' = "done"
  /\ UNCHANGED <<set_id, custom_name, bot_username, remote, emotes_data, set_name,
                 set_title, pos, host, image_url, stickers, calls, printed,
                 sticker_set_url, exc, result>>

Next ==
  \/ get_7tv_emote_set
  \/ get_me
  \/ resolve_emote
  \/ download_emote
  \/ create_new_sticker_set
  \/ convert_return
  \/ convert_command

Spec == Init /\ [][Next]_vars

\* ======================================================================
\* What the environment holds, stated without the program's operators
\* ======================================================================
Range(seq) == {seq[k] : k \in DOMAIN seq}

IsPublish(c) == c.op = "create_new_sticker_set"

IsDownload(c) == c.op = "download"

\* the publish calls made so far, in order
PublishCalls == SelectSeq(calls, IsPublish)

\* the image downloads made so far, in order
DownloadCalls == SelectSeq(calls, IsDownload)

\* the i-th emote of the set the 7TV API holds
SourceEmote(i) == IF i \in DOMAIN remote.head THEN remote.head[i] ELSE remote.head[1]

\* the emote has a 2x or a 1x variant
HasVariant(i) ==
  \E j \in DOMAIN SourceEmote(i).files : SourceEmote(i).files[j] \in {"2x.webp", "1x.webp"}

\* the emote's image can be fetched and decoded
Transcodable(i) ==
  /\ HasVariant(i)
  /\ SourceEmote(i).resp.status = 200
  /\ SourceEmote(i).resp.decodable

SourceOrder == [i \in 1..remote.size |-> i]

\* the emotes with a usable variant, in source order
Resolvable == SelectSeq(SourceOrder, HasVariant)

\* the emotes that transcode, in source order
Transcoded == SelectSeq(SourceOrder, Transcodable)

\* the conversion entered its per-emote loop and has left it
PastLoop == pc \in {"return", "reply", "done"} /\ set_name # None

\* the metadata fetch succeeded
Fetched == remote.status = 200

\* ----------------------------------------------------------------------
\* C1: the item list of every create_new_sticker_set call has at most 50
\* items; with more than 50 transcoded emotes the call is still made, with
\* the first 50, and the conversion can succeed.
C1_BatchAtMostLimit ==
  /\ \A k \in DOMAIN PublishCalls : Len(PublishCalls[k].stickers) <= StickerLimit
  /\ (PastLoop /\ Len(stickers) > StickerLimit) =>
        /\ Len(PublishCalls) = 1
        /\ Len(PublishCalls[1].stickers) = StickerLimit
        /\ \A k \in 1..StickerLimit : PublishCalls[1].stickers[k] = stickers[k]
        /\ (exc # <<>> => exc[1] = "Error creating sticker set")

C1_Witness ==
  /\ pc = "done"
  /\ Len(Transcoded) > StickerLimit
  /\ Len(stickers) > StickerLimit
  /\ Len(PublishCalls[1].stickers) = StickerLimit
  /\ reply.ok

\* ----------------------------------------------------------------------
\* C2 (as claimed): a successful conversion of a set with at least one
\* emote having a usable variant reports min(#resolvable emotes, 50).
C2_SuccessCountIsMinResolvable ==
  (pc = "done" /\ Fetched /\ Resolvable # <<>> /\ reply.ok) =>
     reply.emote_count = Min(Len(Resolvable), StickerLimit)

\* ----------------------------------------------------------------------
\* C3 (as claimed): when no emote survives resolution and transcoding the
\* conversion fails and create_new_sticker_set is never called.
C3_EmptyBatchNeverPublished ==
  (Fetched /\ Transcoded = <<>>) =>
     /\ PublishCalls = <<>>
     /\ (pc = "done" => ~reply.ok)

\* ----------------------------------------------------------------------
\* C4: a non-200 metadata answer ends the conversion with the metadata
\* fetch error; no image download and no publish call is ever made.
C4_MetadataFailureStopsAll ==
  ~Fetched =>
     /\ DownloadCalls = <<>>
     /\ PublishCalls = <<>>
     /\ pc \in {"fetch", "reply", "done"}
     /\ (pc # "fetch" => exc = <<"Failed to fetch 7TV data", remote.status>>)
     /\ (pc = "done" => /\ ~reply.ok
                        /\ reply.error = <<"Failed to fetch 7TV data", remote.status>>)

C4_Witness ==
  /\ pc = "done"
  /\ remote.status = 404
  /\ remote.size > 0
  /\ ~reply.ok
  /\ Len(calls) = 1

\* ----------------------------------------------------------------------
\* C5: a resolve, download or decode failure of one emote never aborts the
\* loop: once the loop is left every emote has been taken, every emote with
\* a usable variant has been downloaded, in source order, and every emote
\* that transcodes is in the list 'stickers', whose first 50 are published.
DownloadedEmotes == [k \in DOMAIN DownloadCalls |-> DownloadCalls[k].emote]

C5_FailureNeverAbortsLoop ==
  /\ (Fetched /\ PastLoop) =>
        /\ pos = remote.size
        /\ DownloadedEmotes = Resolvable
        /\ stickers = Transcoded
        /\ Len(PublishCalls) = 1
        /\ \A k \in 1..Min(Len(Transcoded), StickerLimit) :
              Transcoded[k] \in Range(PublishCalls[1].stickers)
  /\ (pc = "download" \/ pc = "loop") => exc = <<>>

\* an emote whose host answers 500, one that cannot be decoded or one with no
\* variant, and a later emote that is published
C5_Witness ==
  /\ pc = "done"
  /\ reply.ok
  /\ \E i, j \in 1..remote.size :
        /\ i < j
        /\ ~Transcodable(i)
        /\ HasVariant(i)
        /\ j \in Range(PublishCalls[1].stickers)

\* ----------------------------------------------------------------------
\* C6 (as claimed): every emote with neither a 2x nor a 1x variant is in the
\* conversion's failure list and not in the published batch.  The only
\* failure records the program makes are its "Failed to process emote" lines.
IsFailureLine(l) == l[1] = "Failed to process emote"

FailureList == SelectSeq(printed, IsFailureLine)

C6_UnresolvableInFailureList ==
  (Fetched /\ pc = "done") =>
     \A i \in 1..remote.size :
        ~HasVariant(i) =>
           /\ \E k \in DOMAIN FailureList : FailureList[k][2] = i
           /\ \A c \in DOMAIN PublishCalls : i \notin Range(PublishCalls[c].stickers)

\* ----------------------------------------------------------------------
\* C7: the items of the publish call are the first min(k, 50) of the k
\* emotes that transcode, in source order.
C7_PublishedInSourceOrder ==
  \A c \in DOMAIN PublishCalls :
     LET items == PublishCalls[c].stickers
     IN /\ Len(items) = Min(Len(Transcoded), StickerLimit)
        /\ \A k \in DOMAIN items : items[k] = Transcoded[k]
        /\ \A k, l \in DOMAIN items : k < l => items[k] < items[l]

\* more than 50 emotes transcode and a failing emote lies between two of them
C7_Witness ==
  /\ Len(PublishCalls) = 1
  /\ Len(Transcoded) > StickerLimit
  /\ Len(PublishCalls[1].stickers) = StickerLimit
  /\ \E i \in 1..remote.size :
        /\ ~Transcodable(i)
        /\ PublishCalls[1].stickers[1] < i
        /\ i < PublishCalls[1].stickers[2]

\* ----------------------------------------------------------------------
\* C8: for the emote the loop has just taken, the resolver stands on the
\* first 2x entry when the file list has one (also after a 1x entry), on the
\* first 1x entry when it has no 2x entry, and the URL is built from that
\* entry; with neither the URL stays unset, no download of the emote is ever
\* made, and the loop goes on to the next emote.
IsFirst(files, name, j) ==
  /\ j \in DOMAIN files
  /\ files[j] = name
  /\ \A k \in 1..(j - 1) : files[k] # name

Has(files, name) == \E j \in DOMAIN files : files[j] = name

C8_ResolverPrefers2x ==
  /\ (Fetched /\ pos >= 1 /\ pc \in {"loop", "download"}) =>
       LET files == SourceEmote(pos).files
       IN /\ Has(files, "2x.webp") =>
               /\ host[1] = pos
               /\ IsFirst(files, "2x.webp", host[2])
               /\ image_url = "https:" \o HostUrl(pos) \o "/2x.webp"
               /\ pc = "download" \/ DownloadCalls[Len(DownloadCalls)].emote = pos
          /\ (~Has(files, "2x.webp") /\ Has(files, "1x.webp")) =>
               /\ host[1] = pos
               /\ IsFirst(files, "1x.webp", host[2])
               /\ image_url = "https:" \o HostUrl(pos) \o "/1x.webp"
               /\ pc = "download" \/ DownloadCalls[Len(DownloadCalls)].emote = pos
          /\ (~Has(files, "2x.webp") /\ ~Has(files, "1x.webp")) =>
               /\ image_url = None
               /\ pc = "loop"
  /\ \A k \in DOMAIN DownloadCalls :
        /\ HasVariant(DownloadCalls[k].emote)
        /\ DownloadCalls[k].url = "https:" \o HostUrl(DownloadCalls[k].emote) \o "/" \o
              (IF Has(SourceEmote(DownloadCalls[k].emote).files, "2x.webp")
                 THEN "2x.webp" ELSE "1x.webp")
  /\ (Fetched /\ PastLoop) => pos = remote.size

\* a 2x entry behind a 1x entry is the one taken
C8_Witness ==
  /\ pc = "download"
  /\ SourceEmote(pos).files = <<"1x.webp", "2x.webp">>
  /\ host = <<pos, 2>>
  /\ image_url = "https:" \o HostUrl(pos) \o "/2x.webp"

\* ----------------------------------------------------------------------
\* C9: the set name of the publish call is '<customName>_by_<handle>' when
\* a (non-empty) custom name is given and '7tv_<setId>_by_<handle>'
\* otherwise, whatever the emote set holds and whichever emotes failed.
C9_SetNameFromInputsOnly ==
  \A c \in DOMAIN PublishCalls :
     PublishCalls[c].name =
        (IF custom_name \in {None, ""}
           THEN "7tv_" \o set_id
           ELSE custom_name) \o "_by_" \o bot_username

C9_Witness ==
  /\ Len(PublishCalls) = 1
  /\ custom_name = "pog"
  /\ PublishCalls[1].name = "pog_by_emote_bot"
  /\ Len(stickers) < Len(Resolvable)

\* ----------------------------------------------------------------------
\* C10: create_new_sticker_set is called at most once, with the whole
\* batch, after every emote has been taken and every download has ended; it
\* is the last network call of the conversion, and a rejected publish ends
\* the conversion as failed without a second call.
C10_PublishOnceAfterAllEmotes ==
  /\ Len(PublishCalls) <= 1
  /\ \A k \in DOMAIN calls :
        IsPublish(calls[k]) =>
           /\ k = Len(calls)
           /\ PastLoop
           /\ pos = remote.size
           /\ calls[k].stickers = SubSeq(stickers, 1, Len(calls[k].stickers))
           /\ Len(calls[k].stickers) = Len(stickers) \/ Len(calls[k].stickers) = StickerLimit
           /\ Len(DownloadCalls) = Len(Resolvable)
  /\ (PublishCalls # <<>> /\ pc \in {"reply", "done"} /\ sticker_set_url = None) =>
        /\ exc # <<>>
        /\ exc[1] = "Error creating sticker set"
        /\ (pc = "done" => ~reply.ok)

C10_Witness ==
  /\ pc = "done"
  /\ Len(PublishCalls) = 1
  /\ Len(DownloadCalls) >= 2
  /\ exc # <<>>
  /\ ~reply.ok

====
